---- MODULE Spec2Model ----
(***************************************************************************)
(* Campus parking finder (MainUI_PySide6_v2.py, MainUI_PySide6.py): the    *)
(* MainWindow state, the ranking / recommendation code of                  *)
(* compute_nearest_parking, search_destination and                         *)
(* show_parking_for_user_passes, the filter menu (select_filter), the      *)
(* search history, the login and registration of the Tk front end (UI.py,  *)
(* auth_password.py, create_user.py), and the JSON metadata store of       *)
(* get_metadata.py.                                                        *)
(*                                                                         *)
(* Numbers.  Latitudes and longitudes are integers in microdegrees and a   *)
(* distance is an integer number of micrometres, so 0.05 km is 50 000 000. *)
(* _haversine_km is the haversine formula in its small-angle form at the   *)
(* latitude of the campus: R * sqrt(dphi^2 + cos(phi1)cos(phi2) dlambda^2),*)
(* with the square root rounded down to a microdegree; on one meridian     *)
(* (lon1 = lon2) this is exactly R * |lat2 - lat1|.  The lots of the       *)
(* ranking inputs lie on one meridian (lon = Lon), at latitudes chosen so  *)
(* that two lots are at the same distance from the destination only when   *)
(* they are at the same latitude (the floating point code then computes    *)
(* the same float for both).                                               *)
(*                                                                         *)
(* A lot of parking_places is a record                                     *)
(*   [name, lat, lon, available, passes, ada_spots];                       *)
(* 'capacity' is only copied through by the code and is left out.  An      *)
(* enriched entry is [name, lat, lon, available, distance_km, passes].     *)
(* Python's None is the empty sequence, a present value x is <<x>>.        *)
(***************************************************************************)
EXTENDS Integers, Sequences, FiniteSets, TLC

VARIABLES
    parking_places,     \* self.parking_places: sequence of lots
    selected_passes,    \* self.selected_passes: pass id -> BOOLEAN
    filters,            \* self.filters: 0..5 -> BOOLEAN
    last_destination,   \* self._last_destination: None or <<[lat, lon, display_name]>>
    search_history,     \* self.search_history: sequence of query strings
    pull_up,            \* what PullUpWidget.set_results last displayed
    ret,                \* what compute_nearest_parking last returned
    hav,                \* two points and what _haversine_km returned for them
    app,                \* CarParkingApp (UI.py): the page shown, the last
                        \* error box, what perform_password_grant returned,
                        \* self.users as saved in users.json
    current_user_passes, \* self.current_user_passes: None until
                        \* set_current_user ran, then <<set of pass ids>>
    userVals,           \* userVals.json (get_metadata.py): None while the
                        \* file does not exist, else <<user -> param -> value>>
    got                 \* the last get_metadata call and what it returned

vars == <<parking_places, selected_passes, filters, last_destination,
          search_history, pull_up, ret, hav, app, current_user_passes,
          userVals, got>>

None == <<>>
Some(x) == <<x>>

-----------------------------------------------------------------------------
(* Bounds and value sets of the model *)

\* longest lot list whose lots vary in place, availability and permits
MaxLots == 2
\* longest lot list of plain lots (two availabilities, one permit)
MaxPlainLots == 4

\* pass ids of load_passes' default settings
PassIds == {"staff", "green_commuter", "silver_commuter", "residence_hall", "ada"}

\* the meridian of the model: the longitude of two of the seed lots
Lon == -97066400
\* 44 m and 100 m north of the first one
LotLats == {36126000, 36126400, 36126900}
\* the geocoded destination, 11 m south of the first lot latitude
Dest == [lat |-> 36125900, lon |-> Lon, display_name |-> "Library"]
Avails == {0, 3, 4, 7, 8, 12}

-----------------------------------------------------------------------------
(* Pure helpers *)

Abs(x) == IF x < 0 THEN -x ELSE x

\* s[:n]
Prefix(s, n) == IF Len(s) <= n THEN s ELSE SubSeq(s, 1, n)

\* [x for x in s if P(x)]
Filter(s, P(_)) ==
    LET f[i \in 0..Len(s)] ==
            IF i = 0 THEN <<>>
            ELSE IF P(s[i]) THEN Append(f[i - 1], s[i]) ELSE f[i - 1]
    IN  f[Len(s)]

\* x put into the sorted list s behind every element whose key is not greater
InsertSorted(x, s, Before(_, _)) ==
    LET k == Cardinality({i \in 1..Len(s) : ~Before(x, s[i])})
    IN  SubSeq(s, 1, k) \o <<x>> \o SubSeq(s, k + 1, Len(s))

\* list.sort(key=...): stable; Before(a, b) is key(a) < key(b)
SortBy(s, Before(_, _)) ==
    LET f[i \in 0..Len(s)] ==
            IF i = 0 THEN <<>> ELSE InsertSorted(s[i], f[i - 1], Before)
    IN  f[Len(s)]

\* R * radians(1e-6 degree), in micrometres: 6371.0 km * pi / 180
MicrometresPerMicrodegree == 111195

\* cos(phi1) * cos(phi2) at the campus (36.12 .. 36.13 degrees), times 10^4
CosSqE4 == 6524

\* math.sqrt on a natural number, rounded down: Newton's iteration
\* x -> (x + n / x) / 2 downwards from a start x >= sqrt(n), which stops at
\* the largest x with x * x <= n
RECURSIVE SqrtBetween(_, _)
SqrtBetween(n, x) ==
    LET y == (x + n \div x) \div 2
    IN  IF y >= x THEN x ELSE SqrtBetween(n, y)

Sqrt(n) ==
    IF n = 0 THEN 0
    ELSE SqrtBetween(n, IF n < 1048576 THEN 1024
                        ELSE IF n < 16777216 THEN 4096
                        ELSE IF n < 268435456 THEN 16384
                        ELSE 46341)

\* mutant: the latitude difference is used as it is, with its sign
_haversine_km_signed(lat1, lon1, lat2, lon2) ==
    LET dphi == lat2 - lat1
        dlambda == lon2 - lon1
        sq == dlambda * dlambda
        a == dphi * dphi + (sq \div 10000) * CosSqE4
                         + ((sq % 10000) * CosSqE4) \div 10000
    IN  MicrometresPerMicrodegree *
          (IF dphi < 0 THEN -1 ELSE 1) * (IF dlambda = 0 THEN Abs(dphi) ELSE Sqrt(a))

\* _haversine_km, in micrometres:
\*   a = sin(dphi/2)^2 + cos(phi1)*cos(phi2)*sin(dlambda/2)^2
\*   R * 2 * atan2(sqrt(a), sqrt(1 - a))
\* with sin x = x and atan2(sqrt(a), sqrt(1 - a)) = sqrt(a) for the angles of
\* the campus (below 0.02 degree); on one meridian sqrt(dphi^2) is |dphi|
_haversine_km(lat1, lon1, lat2, lon2) ==
    LET dphi == lat2 - lat1
        dlambda == lon2 - lon1
        sq == dlambda * dlambda
        a == dphi * dphi + (sq \div 10000) * CosSqE4
                         + ((sq % 10000) * CosSqE4) \div 10000
    IN  MicrometresPerMicrodegree * (IF dlambda = 0 THEN Abs(dphi) ELSE Sqrt(a))

\* mutant: a window of 0.5 km
SIMILAR_DISTANCE_KM_wide == 10 * 50000000

SIMILAR_DISTANCE_KM == 50000000

\* mutant: the first two
TopN_two == 3 - 1

TopN == 3

\* mutant: one entry more is kept
HistoryMax_eleven == 10 + 1

\* self.search_history[:10]
HistoryMax == 10

\* mutant: orange starts at 5
color_for_avail_from5(a) ==
    IF a > 7 THEN "green"
    ELSE IF a >= 5 THEN "orange"
    ELSE "red"

\* mutant: a full lot is not red
color_for_avail_full_orange(a) ==
    IF a > 7 THEN "green"
    ELSE IF a >= 4 \/ a = 0 THEN "orange"
    ELSE "red"

color_for_avail(a) ==
    IF a > 7 THEN "green"
    ELSE IF a >= 4 THEN "orange"
    ELSE "red"

\* mutant: farthest first
ByDistance_desc(a, b) == a.distance_km > b.distance_km

\* mutant: a sort that is not stable (an equal key goes in front)
ByDistance_unstable(a, b) == a.distance_km <= b.distance_km

\* key=lambda x: x['distance_km']
ByDistance(a, b) == a.distance_km < b.distance_km

\* mutant: fewest spaces first
ByAvailThenDistance_asc(a, b) ==
    \/ a.available < b.available
    \/ a.available = b.available /\ a.distance_km < b.distance_km

\* key=lambda x: (-x['available'], x['distance_km'])
ByAvailThenDistance(a, b) ==
    \/ a.available > b.available
    \/ a.available = b.available /\ a.distance_km < b.distance_km

\* spot_passes = set(p.get('passes', [])); add 'ada' when ada_spots > 0
SpotPasses(p) == IF p.ada_spots > 0 THEN p.passes \cup {"ada"} ELSE p.passes

\* {pass_id for pass_id, is_selected in selected_passes.items() if is_selected}
ActivePasses(sp) == {id \in DOMAIN sp : sp[id]}

Enrich(p, dlat, dlon) ==
    [name |-> p.name, lat |-> p.lat, lon |-> p.lon, available |-> p.available,
     distance_km |-> _haversine_km(dlat, dlon, p.lat, p.lon),
     passes |-> SpotPasses(p)]

\* mutant: a lot without permits is open to every user
NearestKeeps_open(p, sp, f) ==
    /\ \/ ActivePasses(sp) = {}
       \/ SpotPasses(p) = {}
       \/ SpotPasses(p) \cap ActivePasses(sp) # {}
       \/ f[5]
    /\ (p.available > 0 \/ f[4])

\* the condition of compute_nearest_parking's loop
NearestKeeps(p, sp, f) ==
    /\ \/ ActivePasses(sp) = {}
       \/ SpotPasses(p) \cap ActivePasses(sp) # {}
       \/ f[5]
    /\ (p.available > 0 \/ f[4])

\* the condition of search_destination's loop
SearchKeeps(p, sp) ==
    \/ ActivePasses(sp) = {}
    \/ SpotPasses(p) \cap ActivePasses(sp) # {}

\* the enriched list of compute_nearest_parking, sorted
NearestEnriched(places, sp, f, dlat, dlon) ==
    LET keep(p) == NearestKeeps(p, sp, f)
        kept == Filter(places, keep)
    IN  SortBy([i \in 1..Len(kept) |-> Enrich(kept[i], dlat, dlon)], ByDistance)

\* the enriched list of search_destination, sorted
SearchEnriched(places, sp, dlat, dlon) ==
    LET keep(p) == SearchKeeps(p, sp)
        kept == Filter(places, keep)
    IN  SortBy([i \in 1..Len(kept) |-> Enrich(kept[i], dlat, dlon)], ByDistance)

\* the enriched list of the first variant's search_destination: every lot
SearchEnrichedV1(places, dlat, dlon) ==
    SortBy([i \in 1..Len(places) |->
              [name |-> places[i].name, lat |-> places[i].lat, lon |-> places[i].lon,
               available |-> places[i].available,
               distance_km |-> _haversine_km(dlat, dlon, places[i].lat, places[i].lon)]],
           ByDistance)

\* mutant: the Show Nearest flag is not read
Top3_full(enriched, f) == enriched

\* top3 = enriched; if self.filters[3]: top3 = enriched[:3]
Top3(enriched, f) == IF f[3] THEN Prefix(enriched, TopN) ELSE enriched

NotRed(p) == color_for_avail(p.available) # "red"
IsGreen(p) == color_for_avail(p.available) = "green"
IsOrange(p) == color_for_avail(p.available) = "orange"

\* mutant: red lots stay candidates
Candidates_all(enriched) == enriched

\* mutant: only full lots are removed, lots with 1..3 spaces stay candidates
Candidates_free(enriched) ==
    LET free(p) == p.available > 0
    IN  Filter(enriched, free)

Candidates(enriched) == Filter(enriched, NotRed)

\* mutant: no tie window, every candidate is in the group
Group_all(candidates) == candidates

\* group = [c for c in candidates if abs(c.d - closest.d) <= SIMILAR_DISTANCE_KM]
Group(candidates) ==
    LET closest == candidates[1]
        near(c) == Abs(c.distance_km - closest.distance_km) <= SIMILAR_DISTANCE_KM
    IN  Filter(candidates, near)

\* mutant: the orange tier is tried before the green tier
Recommend_oranges_first(enriched) ==
    LET candidates == Candidates(enriched)
    IN  IF candidates = <<>> THEN None
        ELSE LET closest == candidates[1]
                 group == Group(candidates)
                 greens == Filter(group, IsGreen)
                 oranges == Filter(group, IsOrange)
             IN  IF Len(group) = 1 THEN Some(closest)
                 ELSE IF oranges # <<>>
                      THEN Some(SortBy(oranges, ByAvailThenDistance)[1])
                 ELSE IF greens # <<>>
                      THEN Some(SortBy(greens, ByAvailThenDistance)[1])
                 ELSE Some(SortBy(group, ByAvailThenDistance)[1])

\* the recommendation block shared by the three functions
Recommend(enriched) ==
    LET candidates == Candidates(enriched)
    IN  IF candidates = <<>> THEN None
        ELSE LET closest == candidates[1]
                 group == Group(candidates)
                 greens == Filter(group, IsGreen)
                 oranges == Filter(group, IsOrange)
             IN  IF Len(group) = 1 THEN Some(closest)
                 ELSE IF greens # <<>>
                      THEN Some(SortBy(greens, ByAvailThenDistance)[1])
                 ELSE IF oranges # <<>>
                      THEN Some(SortBy(oranges, ByAvailThenDistance)[1])
                 ELSE Some(SortBy(group, ByAvailThenDistance)[1])

-----------------------------------------------------------------------------
(* Operations *)

\* what compute_nearest_parking returns under the flags f: (top3,
\* recommendation), with its local list and its arguments
NearestResult(places, sp, f, dlat, dlon) ==
    LET enriched == NearestEnriched(places, sp, f, dlat, dlon)
    IN  [top3 |-> Top3(enriched, f),
         recommendation |-> Recommend(enriched),
         enriched |-> enriched,
         dest_lat |-> dlat, dest_lon |-> dlon]

\* the attributes of the window (self) as a call finds them
Self ==
    [parking_places |-> parking_places, selected_passes |-> selected_passes,
     filters |-> filters, _last_destination |-> last_destination,
     search_history |-> search_history, pull_up |-> pull_up]

\* mutant: the call ranks around the remembered destination when there is one
Returned_remembered(self, dlat, dlon) ==
    IF self._last_destination = None
    THEN NearestResult(self.parking_places, self.selected_passes, self.filters,
                       dlat, dlon)
    ELSE [NearestResult(self.parking_places, self.selected_passes, self.filters,
                        self._last_destination[1].lat, self._last_destination[1].lon)
            EXCEPT !.dest_lat = dlat, !.dest_lon = dlon]

\* what compute_nearest_parking(dest_lat, dest_lon) returns on the window
\* self: it reads self.parking_places, self.selected_passes and self.filters
Returned(self, dlat, dlon) ==
    NearestResult(self.parking_places, self.selected_passes, self.filters,
                  dlat, dlon)

\* mutant: the call adds 'ada' to the lot's own pass list
compute_nearest_parking_aliasing(dlat, dlon) ==
    /\ ret' = Some(NearestResult(parking_places, selected_passes, filters, dlat, dlon))
    /\ parking_places' = [i \in 1..Len(parking_places) |->
                             [parking_places[i] EXCEPT !.passes = SpotPasses(parking_places[i])]]
    /\ UNCHANGED <<selected_passes, filters, last_destination,
                   search_history, pull_up, hav, app,
                   current_user_passes, userVals, got>>

\* compute_nearest_parking(dest_lat, dest_lon): returns (top3, recommendation)
compute_nearest_parking(dlat, dlon) ==
    /\ ret' = Some(Returned(Self, dlat, dlon))
    /\ UNCHANGED <<parking_places, selected_passes, filters, last_destination,
                   search_history, pull_up, hav, app,
                   current_user_passes, userVals, got>>

\* str.lower() on the query strings of the model
Lower(q) ==
    CASE q \in {"Library", "library"} -> "library"
      [] q \in {"Gym", "gym"} -> "gym"
      [] OTHER -> q

\* mutant: the newest entry is compared as typed
RecordQuery_exact(history, query) ==
    Prefix(IF history = <<>> \/ history[1] # query
           THEN <<query>> \o history
           ELSE history, HistoryMax)

\* the history block of search_destination
RecordQuery(history, query) ==
    Prefix(IF history = <<>> \/ Lower(history[1]) # Lower(query)
           THEN <<query>> \o history
           ELSE history, HistoryMax)

\* mutant: the panel calls a lot green from 7 spaces on
EntryColor_from7(avail) ==
    IF avail >= 7 THEN "green"
    ELSE IF avail >= 4 THEN "orange"
    ELSE "red"

\* set_results, the colour written on a list entry
EntryColor(avail) ==
    IF avail > 7 THEN "green"
    ELSE IF avail >= 4 THEN "orange"
    ELSE "red"

\* set_results, the colour written on the recommendation
RecColor(ravail) ==
    IF ravail > 7 THEN "green" ELSE (IF ravail >= 4 THEN "orange" ELSE "red")

\* PullUpWidget.set_results(destination_name, top3_list, recommendation):
\* the entries with their colours, and under the heading
\* "Recommended spot (>5 available):" the recommendation with its colour;
\* 'by' and 'enriched' record the caller and its local list
Panel(by, name, top3, recommendation, enriched) ==
    [by |-> by, destination_name |-> name, top3 |-> top3,
     colors |-> [i \in 1..Len(top3) |-> EntryColor(top3[i].available)],
     recommendation |-> recommendation,
     rcolor |-> IF recommendation = None THEN None
                ELSE Some(RecColor(recommendation[1].available)),
     enriched |-> enriched]

\* search_destination; geo is the geocoder's answer: None (network error or
\* no result) or the chosen place
search_destination(query, geo) ==
    IF query = "" THEN UNCHANGED vars
    ELSE /\ search_history' = RecordQuery(search_history, query)
         /\ IF geo = None
            THEN UNCHANGED <<last_destination, pull_up>>
            ELSE LET d == geo[1]
                     enriched == SearchEnriched(parking_places, selected_passes,
                                                d.lat, d.lon)
                 IN  /\ last_destination' = Some(d)
                     /\ pull_up' = Panel("search_destination", d.display_name,
                                         Top3(enriched, filters),
                                         Recommend(enriched), enriched)
         /\ UNCHANGED <<parking_places, selected_passes, filters, ret, hav, app,
                   current_user_passes, userVals, got>>

\* search_destination of the first variant (MainUI_PySide6.py): no filters,
\* always the first three
search_destination_v1(query, geo) ==
    IF query = "" THEN UNCHANGED vars
    ELSE /\ search_history' = RecordQuery(search_history, query)
         /\ IF geo = None
            THEN UNCHANGED <<last_destination, pull_up>>
            ELSE LET d == geo[1]
                     enriched == SearchEnrichedV1(parking_places, d.lat, d.lon)
                 IN  /\ last_destination' = Some(d)
                     /\ pull_up' = Panel("search_destination_v1", d.display_name,
                                         Prefix(enriched, TopN),
                                         Recommend(enriched), enriched)
         /\ UNCHANGED <<parking_places, selected_passes, filters, ret, hav, app,
                   current_user_passes, userVals, got>>

\* MapWidget.okstate_lat, okstate_lon: the campus centre
okstate_lat == 36122400
okstate_lon == -97069800

\* p.get('allowed_passes', [])
AllowedPasses(p) ==
    IF "allowed_passes" \in DOMAIN p THEN p.allowed_passes ELSE {}

\* the condition of show_parking_for_user_passes' loop
PassKeeps(p, passes) ==
    /\ passes \cap AllowedPasses(p) # {}
    /\ p.available > 0

\* the matches of show_parking_for_user_passes, sorted
PassMatches(places, passes, clat, clon) ==
    LET keep(p) == PassKeeps(p, passes)
        kept == Filter(places, keep)
    IN  SortBy([i \in 1..Len(kept) |->
                  [name |-> kept[i].name, lat |-> kept[i].lat, lon |-> kept[i].lon,
                   available |-> kept[i].available,
                   distance_km |-> _haversine_km(clat, clon, kept[i].lat, kept[i].lon)]],
               ByDistance)

\* show_parking_for_user_passes(passes), centred on the campus; passes is the
\* pass list of the user's record in users.json
show_parking_for_user_passes(passes) ==
    /\ IF passes = {}
       THEN pull_up' = Panel("show_parking_for_user_passes", "Pass Matches",
                             <<>>, None, <<>>)
       ELSE LET matches == PassMatches(parking_places, passes,
                                       okstate_lat, okstate_lon)
            IN  pull_up' = Panel("show_parking_for_user_passes",
                                 "Parking for your passes",
                                 matches, Recommend(matches), matches)
    /\ UNCHANGED <<parking_places, selected_passes, filters, last_destination,
                   search_history, ret, hav, app, userVals, got>>

\* show_settings with its Save button: the dialog starts from the current
\* selection, checked is the set of boxes ticked when Save is clicked, and
\* save_settings assigns every pass and saves parking_settings.json; nothing
\* is recomputed. Closing the dialog without Save changes nothing
show_settings(checked) ==
    /\ selected_passes' = [id \in PassIds |-> id \in checked]
    /\ UNCHANGED <<parking_places, filters, last_destination, search_history,
                   pull_up, ret, hav, app, current_user_passes, userVals, got>>

\* what users.get(username) can be after json.load of users.json: nothing
\* (unknown user or no file), a bare password string, or a record with a
\* pass list and / or a single "form" pass
UserRecords ==
    {[type |-> "none", passes |-> {}, form |-> None],
     [type |-> "str", passes |-> {}, form |-> None],
     [type |-> "dict", passes |-> {}, form |-> None],
     [type |-> "dict", passes |-> {"staff"}, form |-> None],
     [type |-> "dict", passes |-> {}, form |-> Some("staff")]}

\* user.get('passes') or user.get('form') and [user.get('form')] or []
PassesOf(user) ==
    IF user.type # "dict" THEN {}
    ELSE IF user.passes # {} THEN user.passes
    ELSE IF user.form # None THEN {user.form[1]}
    ELSE {}

\* set_current_user(username), user being users.get(username): it keeps the
\* user's passes and shows the lots for them
set_current_user(user) ==
    /\ current_user_passes' = Some(PassesOf(user))
    /\ show_parking_for_user_passes(PassesOf(user))

\* the entry select_filter builds for the bike route: it is no lot (name 0)
BikeInfo(d) ==
    [name |-> 0, lat |-> d.lat, lon |-> d.lon, available |-> 0,
     distance_km |-> _haversine_km(okstate_lat, okstate_lon, d.lat, d.lon)]

\* mutant: the menu behaves as radio buttons, choosing a filter clears the
\* five others
select_filter_radio(filter_type) ==
    LET toggled == [k \in 0..5 |-> k = filter_type /\ ~filters[k]]
    IN  /\ filters' = toggled
        /\ IF last_destination = None
           THEN UNCHANGED <<pull_up, ret>>
           ELSE LET dest == last_destination[1]
                    res == NearestResult(parking_places, selected_passes, toggled,
                                         dest.lat, dest.lon)
                IN  IF toggled[0] \/ toggled[1]
                    THEN /\ ret' = Some(res)
                         /\ pull_up' = Panel("select_filter", dest.display_name,
                                             res.top3, res.recommendation,
                                             res.enriched)
                    ELSE IF toggled[2]
                    THEN /\ pull_up' = Panel("select_filter_bike", dest.display_name,
                                             <<BikeInfo(dest)>>, None, <<>>)
                         /\ UNCHANGED ret
                    ELSE UNCHANGED <<pull_up, ret>>
        /\ UNCHANGED <<parking_places, selected_passes, last_destination,
                       search_history, hav, app,
                       current_user_passes, userVals, got>>

\* select_filter(filter_type): toggles the flag; with a destination set it
\* recomputes when Cars or Motorcycle is on, shows the bike route when only
\* Bike Lane is on, and else leaves the panel as it is
select_filter(filter_type) ==
    LET toggled == [filters EXCEPT ![filter_type] = ~@]
    IN  /\ filters' = toggled
        /\ IF last_destination = None
           THEN UNCHANGED <<pull_up, ret>>
           ELSE LET dest == last_destination[1]
                    res == NearestResult(parking_places, selected_passes, toggled,
                                         dest.lat, dest.lon)
                IN  IF toggled[0] \/ toggled[1]
                    THEN /\ ret' = Some(res)
                         /\ pull_up' = Panel("select_filter", dest.display_name,
                                             res.top3, res.recommendation,
                                             res.enriched)
                    ELSE IF toggled[2]
                    THEN /\ pull_up' = Panel("select_filter_bike", dest.display_name,
                                             <<BikeInfo(dest)>>, None, <<>>)
                         /\ UNCHANGED ret
                    ELSE UNCHANGED <<pull_up, ret>>
        /\ UNCHANGED <<parking_places, selected_passes, last_destination,
                       search_history, hav, app,
                   current_user_passes, userVals, got>>

-----------------------------------------------------------------------------
(* Inputs of the ranking code *)

Lot(lat, a, ps, ada) ==
    [name |-> 0, lat |-> lat, lon |-> Lon, available |-> a, passes |-> ps,
     ada_spots |-> ada]

\* lots that differ in place and availability; every one takes the staff pass
RankLots == {Lot(lat, a, {"staff"}, 0) : lat \in LotLats, a \in Avails}

\* lots that are red or green
PlainLots == {Lot(lat, a, {"staff"}, 0) : lat \in LotLats, a \in {3, 8}}

\* lots that differ in their permits: no pass, staff, ada spots
PermitLots ==
    {Lot(lat, a, pa[1], pa[2]) :
        lat \in {36126000, 36126400}, a \in {0, 8},
        pa \in {<<{}, 0>>, <<{"staff"}, 0>>, <<{}, 1>>}}

\* all lists of n lots drawn from S; the i-th lot is named i
LotLists(n, S) ==
    {[i \in 1..n |-> [sh[i] EXCEPT !.name = i]] : sh \in [1..n -> S]}

Passes(active) == [id \in PassIds |-> id \in active]

Flags(f3, f4, f5) == [i \in 0..5 |-> (i = 3 /\ f3) \/ (i = 4 /\ f4) \/ (i = 5 /\ f5)]

NoPanel == Panel("", "", <<>>, None, <<>>)

\* no distance measured
NoHav == [p |-> None, q |-> None, pq |-> None, qp |-> None, pp |-> None]

\* CarParkingApp after __init__ (show_login_page): both entries empty, no
\* error box, no grant asked, no exception in a callback, self.users as
\* load_users finds it without a users.json, and no box of register_user
\* waiting to be dismissed
LoginPage ==
    [page |-> "login", username_entry |-> "", password_entry |-> "",
     message |-> None, tokens |-> None, raised |-> None, answer |-> None,
     users |-> [u \in {} |-> None], waiting |-> FALSE]

\* set_current_user has not run; userVals.json does not exist and
\* get_metadata was never called
Untouched ==
    /\ current_user_passes = None
    /\ userVals = None
    /\ got = None

InitRankLots ==
    /\ \E n \in 0..MaxLots : parking_places \in LotLists(n, RankLots)
    /\ selected_passes = Passes({})
    /\ \E f4 \in BOOLEAN : filters = Flags(FALSE, f4, FALSE)

InitPlainLots ==
    /\ \E n \in 0..MaxPlainLots : parking_places \in LotLists(n, PlainLots)
    /\ selected_passes = Passes({})
    /\ \E f3 \in BOOLEAN : filters = Flags(f3, FALSE, FALSE)

InitPermitLots ==
    /\ \E n \in 0..MaxLots : parking_places \in LotLists(n, PermitLots)
    /\ selected_passes \in
         {Passes({}), Passes({"staff"}), Passes({"ada"}), Passes({"green_commuter"})}
    /\ \E f4 \in BOOLEAN, f5 \in BOOLEAN : filters = Flags(FALSE, f4, f5)

\* the inputs of one ranking: any lot list, pass selection and flags 3..5
InitRank ==
    /\ InitRankLots \/ InitPlainLots \/ InitPermitLots
    /\ last_destination = None
    /\ search_history = <<>>
    /\ pull_up = NoPanel
    /\ ret = None
    /\ hav = NoHav
    /\ app = LoginPage
    /\ Untouched

NextRank ==
    \/ compute_nearest_parking(Dest.lat, Dest.lon)
    \/ \E geo \in {None, Some(Dest)} : search_destination("Library", geo)
    \/ \E geo \in {None, Some(Dest)} : search_destination_v1("Library", geo)

SpecRank == InitRank /\ [][NextRank]_vars

-----------------------------------------------------------------------------
(* The main window from its construction on *)

\* the five lots of _init_ui; ada is the draw of random.randint(1, max_ada),
\* capped by max_ada = min(6, max(1, capacity // 50)) = 6, 5, 6, 2, 3
SeedLots(ada) ==
    <<[name |-> 1, lat |-> 36126400, lon |-> -97086700, available |-> 75,
       passes |-> {"staff", "green_commuter", "silver_commuter"},
       ada_spots |-> IF ada < 6 THEN ada ELSE 6],
      [name |-> 2, lat |-> 36128700, lon |-> -97081800, available |-> 40,
       passes |-> {"staff", "green_commuter"},
       ada_spots |-> IF ada < 5 THEN ada ELSE 5],
      [name |-> 3, lat |-> 36128700, lon |-> -97066400, available |-> 55,
       passes |-> {"residence_hall", "staff"},
       ada_spots |-> IF ada < 6 THEN ada ELSE 6],
      [name |-> 4, lat |-> 36126000, lon |-> -97070100, available |-> 12,
       passes |-> {"staff", "silver_commuter"},
       ada_spots |-> IF ada < 2 THEN ada ELSE 2],
      [name |-> 5, lat |-> 36124200, lon |-> -97066400, available |-> 20,
       passes |-> {"staff", "green_commuter", "silver_commuter"},
       ada_spots |-> IF ada < 3 THEN ada ELSE 3]>>

\* mutant: the Overpass lot gets no ADA space
OsmExtras_no_ada ==
    {<<>>} \cup
    {<<[name |-> 6, lat |-> 36125800, lon |-> -97066700, available |-> a,
        passes |-> {"green_commuter"}, ada_spots |-> 0]>> : a \in {1, 5}}

\* what the Overpass query added: nothing (no network), or one lot next to
\* the library with capacity 10 or 50, so available = max(1, capacity // 10)
\* is 1 or 5; one random pass and "ada"
OsmExtras ==
    {<<>>} \cup
    {<<[name |-> 6, lat |-> 36125800, lon |-> -97066700, available |-> a,
        passes |-> {"green_commuter", "ada"}, ada_spots |-> 1]>> : a \in {1, 5}}

\* the boxes ticked when the settings dialog is saved: none, the pass every
\* seed lot takes, a pass three of them take, or the pass none of them lists
Selections == {{}, {"staff"}, {"green_commuter"}, {"ada"}}

\* MainWindow after __init__ and _init_ui: flags off, no destination, the
\* pass selection of parking_settings.json or the default (nothing selected)
Init ==
    /\ \E ada \in {1, 6}, extras \in OsmExtras :
           parking_places = SeedLots(ada) \o extras
    /\ selected_passes \in {Passes(checked) : checked \in Selections}
    /\ filters = [i \in 0..5 |-> FALSE]
    /\ last_destination = None
    /\ search_history = <<>>
    /\ pull_up = NoPanel
    /\ ret = None
    /\ hav = NoHav
    /\ app = LoginPage
    /\ Untouched

\* the events of the main window: a search, a click in the filter menu,
\* set_current_user showing the lots for the passes of a user record, and
\* the settings dialog saved with a pass selection
Next ==
    \/ \E geo \in {None, Some(Dest)} : search_destination("Library", geo)
    \/ \E filter_type \in 0..5 : select_filter(filter_type)
    \/ \E user \in UserRecords : set_current_user(user)
    \/ \E checked \in Selections : show_settings(checked)

Spec == Init /\ [][Next]_vars

-----------------------------------------------------------------------------
(* _haversine_km on pairs of points *)

\* the main window with the seed lots and nothing done
FreshWindow ==
    /\ parking_places = SeedLots(1)
    /\ selected_passes = Passes({})
    /\ filters = [i \in 0..5 |-> FALSE]
    /\ last_destination = None
    /\ search_history = <<>>
    /\ pull_up = NoPanel
    /\ ret = None

\* the campus centre, the library, and corners of the box of the seed lots
Points ==
    {[lat |-> la, lon |-> lo] :
        la \in {okstate_lat, Dest.lat, 36126000, 36128700},
        lo \in {-97086700, okstate_lon, Lon}}

InitHaversine ==
    /\ FreshWindow
    /\ \E p \in Points, q \in Points :
           hav = [p |-> Some(p), q |-> Some(q), pq |-> None, qp |-> None, pp |-> None]
    /\ app = LoginPage
    /\ Untouched

\* one call of _haversine_km: from p to q, from q to p, or from p to p
measure(call) ==
    LET p == hav.p[1]
        q == hav.q[1]
    IN  /\ hav[call] = None
        /\ hav' = [hav EXCEPT ![call] =
                     Some(CASE call = "pq" -> _haversine_km(p.lat, p.lon, q.lat, q.lon)
                            [] call = "qp" -> _haversine_km(q.lat, q.lon, p.lat, p.lon)
                            [] call = "pp" -> _haversine_km(p.lat, p.lon, p.lat, p.lon))]
        /\ UNCHANGED <<parking_places, selected_passes, filters, last_destination,
                       search_history, pull_up, ret, app,
                   current_user_passes, userVals, got>>

NextHaversine == \E call \in {"pq", "qp", "pp"} : measure(call)

SpecHaversine == InitHaversine /\ [][NextHaversine]_vars

-----------------------------------------------------------------------------
(* The login page of CarParkingApp (UI.py) and perform_password_grant *)

\* what Auth0 answers to one grant request: whether the token endpoint's body
\* is JSON, its status, whether the body has an access_token, and what the
\* userinfo endpoint does ("sub": ok with a sub, "nosub": ok without,
\* "refused": not ok, "timeout": the request raises)
Answers ==
    {[json |-> FALSE, status |-> 502, access_token |-> FALSE, userinfo |-> "refused"],
     [json |-> TRUE, status |-> 403, access_token |-> FALSE, userinfo |-> "refused"],
     [json |-> TRUE, status |-> 200, access_token |-> FALSE, userinfo |-> "refused"]}
    \cup
    {[json |-> TRUE, status |-> 200, access_token |-> TRUE, userinfo |-> u] :
        u \in {"sub", "nosub", "refused", "timeout"}}

\* a Python str and a Python dict
Str(v) == [type |-> "str", value |-> v]
Dict(v) == [type |-> "dict", value |-> v]

\* the "sub" of the user's profile
SubOf(username) == IF username = "alice" THEN "auth0|alice" ELSE "auth0|bob"

\* perform_password_grant(username, password) when Auth0 answers with answer
perform_password_grant(username, password, answer) ==
    IF ~answer.json THEN None
    ELSE IF answer.status = 200
         THEN IF answer.access_token /\ answer.userinfo = "sub"
              THEN Some(Str(SubOf(username)))
              ELSE None
         ELSE None

\* str.strip() on the entry texts of the model
Strip(text) == IF text = " " THEN "" ELSE text

\* the user types into the username entry
type_username(text) ==
    /\ app.page = "login"
    /\ app' = [app EXCEPT !.username_entry = text]
    /\ UNCHANGED <<parking_places, selected_passes, filters, last_destination,
                   search_history, pull_up, ret, hav,
                   current_user_passes, userVals, got>>

\* the user types into the password entry
type_password(text) ==
    /\ app.page = "login"
    /\ app' = [app EXCEPT !.password_entry = text]
    /\ UNCHANGED <<parking_places, selected_passes, filters, last_destination,
                   search_history, pull_up, ret, hav,
                   current_user_passes, userVals, got>>

\* CarParkingApp.login, run by the Login button or by the <Return> key,
\* with Auth0's answer to the grant request. The key binding is installed by
\* show_login_page and never removed, so the key runs login on every page:
\* off the login page self.username_entry.get() raises TclError on the
\* destroyed entry, inside the Tk callback. tokens.get on a str raises
\* AttributeError in the callback. A modal box takes the key while it waits
login(answer) ==
    LET username == Strip(app.username_entry)
        password == Strip(app.password_entry)
        tokens == perform_password_grant(username, password, answer)
    IN  /\ ~app.waiting
        /\ IF app.page # "login"
           THEN app' = [app EXCEPT
                          !.message = None, !.tokens = None,
                          !.raised = Some("TclError"), !.answer = None]
           ELSE IF username = "" \/ password = ""
           THEN app' = [app EXCEPT
                          !.message = Some("Please enter both username and password!"),
                          !.tokens = None, !.raised = None, !.answer = None]
           ELSE IF tokens # None
           THEN IF tokens[1].type = "dict"
                THEN app' = [app EXCEPT
                               !.page = "main", !.message = None,
                               !.tokens = tokens, !.raised = None,
                               !.answer = Some(answer)]
                ELSE app' = [app EXCEPT
                               !.message = None, !.tokens = tokens,
                               !.raised = Some("AttributeError"),
                               !.answer = Some(answer)]
           ELSE app' = [app EXCEPT
                          !.message = Some("Invalid username or password!"),
                          !.tokens = None, !.raised = None,
                          !.answer = Some(answer)]
        /\ UNCHANGED <<parking_places, selected_passes, filters, last_destination,
                       search_history, pull_up, ret, hav,
                       current_user_passes, userVals, got>>

\* the "New User" button: show_new_user_page replaces the login page
show_new_user_page ==
    /\ app.page = "login"
    /\ app' = [app EXCEPT !.page = "register"]
    /\ UNCHANGED <<parking_places, selected_passes, filters, last_destination,
                   search_history, pull_up, ret, hav,
                   current_user_passes, userVals, got>>

\* the "Back to Login" button of the registration page and the "Logout"
\* button of the main page: show_login_page builds the page anew
show_login_page ==
    /\ app.page \in {"register", "main"}
    /\ ~app.waiting
    /\ app' = [app EXCEPT !.page = "login", !.username_entry = "",
                          !.password_entry = ""]
    /\ UNCHANGED <<parking_places, selected_passes, filters, last_destination,
                   search_history, pull_up, ret, hav,
                   current_user_passes, userVals, got>>

\* Auth0's answers to /dbconnections/signup: whether the body is JSON, the
\* status, and the body's values under the keys _format_auth0_error looks
\* for ("" where the body has no such key)
Body(description, error_description, message, error) ==
    [description |-> description, error_description |-> error_description,
     message |-> message, error |-> error, msg |-> ""]

EmptyBody == Body("", "", "", "")

SignupAnswers ==
    {[json |-> TRUE, status |-> 200, body |-> EmptyBody],
     [json |-> TRUE, status |-> 201, body |-> EmptyBody],
     [json |-> TRUE, status |-> 400, body |-> Body("Invalid sign up", "", "", "")],
     [json |-> TRUE, status |-> 400,
      body |-> Body("At least 8 characters in length", "", "Password is too weak", "")],
     [json |-> TRUE, status |-> 400,
      body |-> Body("", "", "", "email format validation failed")],
     [json |-> TRUE, status |-> 400, body |-> Body("Invalid email address", "", "", "")],
     [json |-> TRUE, status |-> 400,
      body |-> Body("", "email format validation failed", "", "invalid_request")],
     [json |-> TRUE, status |-> 429, body |-> Body("", "", "", "Too many requests")],
     [json |-> TRUE, status |-> 500, body |-> EmptyBody],
     [json |-> FALSE, status |-> 502, body |-> EmptyBody]}

\* create_user(email, password, connection): TRUE when it returns the body,
\* FALSE when it raises Auth0Error
create_user(answer) == answer.json /\ answer.status \in {200, 201}

\* the info of the Auth0Error that create_user raises
Auth0ErrorInfo(answer) ==
    IF ~answer.json
    THEN Body("", "", "Non-JSON response from Auth0", "")
    ELSE answer.body

\* _format_auth0_error on a dict: the first truthy value under description,
\* error_description, message, error, msg; the bodies of the model without
\* such a value are empty and flatten to ""
_format_auth0_error(info) ==
    IF info.description # "" THEN info.description
    ELSE IF info.error_description # "" THEN info.error_description
    ELSE IF info.message # "" THEN info.message
    ELSE IF info.error # "" THEN info.error
    ELSE IF info.msg # "" THEN info.msg
    ELSE ""

\* the characters of the strings of the model
Chars(text) ==
    CASE text = "Invalid sign up" ->
           <<"I", "n", "v", "a", "l", "i", "d", " ", "s", "i", "g", "n", " ", "u", "p">>
      [] text = "At least 8 characters in length" ->
           <<"A", "t", " ", "l", "e", "a", "s", "t", " ", "8", " ", "c", "h", "a", "r", "a", "c", "t", "e", "r", "s", " ", "i", "n", " ", "l", "e", "n", "g", "t", "h">>
      [] text = "Password is too weak" ->
           <<"P", "a", "s", "s", "w", "o", "r", "d", " ", "i", "s", " ", "t", "o", "o", " ", "w", "e", "a", "k">>
      [] text = "email format validation failed" ->
           <<"e", "m", "a", "i", "l", " ", "f", "o", "r", "m", "a", "t", " ", "v", "a", "l", "i", "d", "a", "t", "i", "o", "n", " ", "f", "a", "i", "l", "e", "d">>
      [] text = "Invalid email address" ->
           <<"I", "n", "v", "a", "l", "i", "d", " ", "e", "m", "a", "i", "l", " ", "a", "d", "d", "r", "e", "s", "s">>
      [] text = "invalid_request" ->
           <<"i", "n", "v", "a", "l", "i", "d", "_", "r", "e", "q", "u", "e", "s", "t">>
      [] text = "Too many requests" ->
           <<"T", "o", "o", " ", "m", "a", "n", "y", " ", "r", "e", "q", "u", "e", "s", "t", "s">>
      [] text = "Non-JSON response from Auth0" ->
           <<"N", "o", "n", "-", "J", "S", "O", "N", " ", "r", "e", "s", "p", "o", "n", "s", "e", " ", "f", "r", "o", "m", " ", "A", "u", "t", "h", "0">>
      [] text = "" ->
           <<>>
      [] text = "invalid" ->
           <<"i", "n", "v", "a", "l", "i", "d">>
      [] text = "length" ->
           <<"l", "e", "n", "g", "t", "h">>
      [] text = "email" ->
           <<"e", "m", "a", "i", "l">>

UpperCase == <<"A", "B", "C", "D", "E", "F", "G", "H", "I", "J", "K", "L", "M", "N", "O", "P", "Q", "R", "S", "T", "U", "V", "W", "X", "Y", "Z">>
LowerCase == <<"a", "b", "c", "d", "e", "f", "g", "h", "i", "j", "k", "l", "m", "n", "o", "p", "q", "r", "s", "t", "u", "v", "w", "x", "y", "z">>

\* str.lower() on a sequence of characters
LowerChars(cs) ==
    [i \in 1..Len(cs) |->
        IF \E k \in 1..26 : UpperCase[k] = cs[i]
        THEN LowerCase[CHOOSE k \in 1..26 : UpperCase[k] = cs[i]]
        ELSE cs[i]]

\* kw in s
IsSubstring(kw, cs) ==
    \E i \in 1..(Len(cs) - Len(kw) + 1) : SubSeq(cs, i, i + Len(kw) - 1) = kw

\* the formatted errors of the signup answers
FormattedErrors == {_format_auth0_error(Auth0ErrorInfo(answer)) : answer \in SignupAnswers}

\* kw in text.lower(), for the keywords of register_user and the formatted
\* errors of the model
KeywordIn ==
    [kw \in {"invalid", "length", "email"}, text \in FormattedErrors |->
        IsSubstring(Chars(kw), LowerChars(Chars(text)))]

\* _error_has_keywords on a string: one of the keywords is in its lower case
_error_has_keywords(text, keywords) == \E kw \in keywords : KeywordIn[kw, text]

\* f"Failed to create user: {user_msg}"
FailedToCreate(user_msg) ==
    CASE user_msg = "Username already exists!" ->
           "Failed to create user: Username already exists!"
      [] user_msg = "Weak password: must have: 8 characters, a number, a capital letter, and a symbol." ->
           "Failed to create user: Weak password: must have: 8 characters, a number, a capital letter, and a symbol."
      [] user_msg = "Username must be an email!" ->
           "Failed to create user: Username must be an email!"
      [] user_msg = "Too many requests" ->
           "Failed to create user: Too many requests"
      [] user_msg = "Non-JSON response from Auth0" ->
           "Failed to create user: Non-JSON response from Auth0"
      [] user_msg = "Failed to create user" ->
           "Failed to create user: Failed to create user"

\* the text register_user shows for an Auth0Error: the first of the keywords
\* invalid, length, email found in the formatted error decides, and without
\* one the formatted error itself is shown
SignupErrorBox(answer) ==
    LET formatted == _format_auth0_error(Auth0ErrorInfo(answer))
        user_msg ==
            IF _error_has_keywords(formatted, {"invalid"})
            THEN "Username already exists!"
            ELSE IF _error_has_keywords(formatted, {"length"})
            THEN "Weak password: must have: 8 characters, a number, a capital letter, and a symbol."
            ELSE IF _error_has_keywords(formatted, {"email"})
            THEN "Username must be an email!"
            ELSE IF formatted # "" THEN formatted
            ELSE "Failed to create user"
    IN  FailedToCreate(user_msg)

\* self.users[username] = {"password": password, "passes": selected_passes}
StoreUser(users, username, password, passes) ==
    [u \in DOMAIN users \cup {username} |->
        IF u = username THEN [password |-> password, passes |-> passes]
        ELSE users[u]]

\* mutant: the Auth0Error branch stores nothing
register_user_remote_first(name, pw, conf, passes, answer) ==
    LET username == Strip(name)
        password == Strip(pw)
        confirm == Strip(conf)
    IN  /\ app.page = "register"
        /\ ~app.waiting
        /\ IF username = "" \/ password = "" \/ confirm = ""
           THEN app' = [app EXCEPT !.message = Some("Please fill in all fields!")]
           ELSE IF password # confirm
           THEN app' = [app EXCEPT !.message = Some("Passwords do not match!")]
           ELSE IF ~create_user(answer)
           THEN app' = [app EXCEPT !.message = Some(SignupErrorBox(answer))]
           ELSE app' = [app EXCEPT
                          !.users = StoreUser(app.users, username, password, passes),
                          !.message = Some("Registration successful! You can now login."),
                          !.waiting = TRUE]
        /\ UNCHANGED <<parking_places, selected_passes, filters, last_destination,
                       search_history, pull_up, ret, hav,
                       current_user_passes, userVals, got>>

\* CarParkingApp.register_user with the texts of the three entries, the
\* ticked passes and Auth0's answer to the signup; both the Auth0Error
\* handler and the success path store the user and save users.json. On
\* success the handler then waits in messagebox.showinfo, a modal box, with
\* the registration page still shown
register_user(name, pw, conf, passes, answer) ==
    LET username == Strip(name)
        password == Strip(pw)
        confirm == Strip(conf)
    IN  /\ app.page = "register"
        /\ ~app.waiting
        /\ IF username = "" \/ password = "" \/ confirm = ""
           THEN app' = [app EXCEPT !.message = Some("Please fill in all fields!")]
           ELSE IF password # confirm
           THEN app' = [app EXCEPT !.message = Some("Passwords do not match!")]
           ELSE IF ~create_user(answer)
           THEN app' = [app EXCEPT
                          !.users = StoreUser(app.users, username, password, passes),
                          !.message = Some(SignupErrorBox(answer))]
           ELSE app' = [app EXCEPT
                          !.users = StoreUser(app.users, username, password, passes),
                          !.message = Some("Registration successful! You can now login."),
                          !.waiting = TRUE]
        /\ UNCHANGED <<parking_places, selected_passes, filters, last_destination,
                       search_history, pull_up, ret, hav,
                       current_user_passes, userVals, got>>

\* the user dismisses the box "Registration successful!": showinfo returns
\* and register_user ends with show_login_page()
register_user_return ==
    /\ app.waiting
    /\ app' = [app EXCEPT !.waiting = FALSE, !.page = "login",
                          !.username_entry = "", !.password_entry = ""]
    /\ UNCHANGED <<parking_places, selected_passes, filters, last_destination,
                   search_history, pull_up, ret, hav,
                   current_user_passes, userVals, got>>

InitLogin ==
    /\ FreshWindow
    /\ hav = NoHav
    /\ app = LoginPage
    /\ Untouched

NextLogin ==
    \/ \E text \in {"", " ", "alice", "bob"} : type_username(text)
    \/ \E text \in {"", "pw", "wrong"} : type_password(text)
    \/ \E answer \in Answers : login(answer)
    \/ show_new_user_page
    \/ show_login_page
    \/ \E name \in {" ", "alice", "bob"}, pw \in {"", "pw"},
          conf \in {"pw", "wrong"}, passes \in {{}, {"staff"}},
          answer \in SignupAnswers :
           register_user(name, pw, conf, passes, answer)
    \/ register_user_return

SpecLogin == InitLogin /\ [][NextLogin]_vars

-----------------------------------------------------------------------------
(* The search history *)

\* what the user types into the search box: nothing, blanks, and two places
\* in different spellings
Texts == {"", " ", "Library", "library", "Gym"}

\* the main window with an empty history (no search_history.json)
InitHistory ==
    /\ FreshWindow
    /\ hav = NoHav
    /\ app = LoginPage
    /\ Untouched

\* search_for_query(query), the click on entry i of the history shown in the
\* panel: it puts the entry into the search box and runs search_destination
search_for_query(i, geo) ==
    /\ i \in 1..Len(search_history)
    /\ search_destination(Strip(search_history[i]), geo)

\* a search typed into the box of either variant (query is
\* search_input.text().strip()), or a click on a history entry
NextHistory ==
    \/ \E text \in Texts, geo \in {None, Some(Dest)} :
           search_destination(Strip(text), geo)
    \/ \E text \in Texts, geo \in {None, Some(Dest)} :
           search_destination_v1(Strip(text), geo)
    \/ \E i \in 1..HistoryMax, geo \in {None, Some(Dest)} :
           search_for_query(i, geo)

SpecHistory == InitHistory /\ [][NextHistory]_vars

-----------------------------------------------------------------------------
(* The metadata store of get_metadata.py *)

\* Python values: int, tuple and list next to Str, and None
PyInt(v) == [type |-> "int", value |-> v]
Tuple(v) == [type |-> "tuple", value |-> v]
List(v) == [type |-> "list", value |-> v]
PyNone == [type |-> "NoneType", value |-> ""]

\* the user ids, params and values of the calls: a user id that is a string,
\* the same digits as an int, and another string; two params; two strings
\* and a tuple
UserIds == {Str("7"), PyInt(7), Str("alice")}
Params == {"theme", "lot"}
Values == {Str("dark"), Str("light"), Tuple(<<1, 2>>)}

\* str(n) for the ints of the model
IntToStr(n) == IF n = 7 THEN "7" ELSE "0"

\* the key json.dump writes for a dict key: a str as it is, an int in
\* decimal
JsonKey(k) == IF k.type = "int" THEN IntToStr(k.value) ELSE k.value

\* what json.load gives back for a dumped value: a tuple comes back as a
\* list, str and list as they are
JsonValue(v) == IF v.type = "tuple" THEN List(v.value) ELSE v

\* {} as json.load returns it
EmptyDict == [k \in {} |-> PyNone]

\* d.get(key) on a loaded dict, whose keys are all str: an int never equals
\* a str key
Has(d, key) == key.type = "str" /\ key.value \in DOMAIN d

\* get_metadata(user_id, param) on the file
GetMetadata(file, user_id, param) ==
    IF file = None THEN PyNone
    ELSE LET data == file[1]
         IN  IF Has(data, user_id) /\ param \in DOMAIN data[user_id.value]
             THEN data[user_id.value][param]
             ELSE PyNone

\* mutant: the user's record is replaced by the one param
SetMetadata_replace(file, user_id, param, var) ==
    LET data == IF file = None THEN EmptyDict ELSE file[1]
        key == JsonKey(user_id)
    IN  Some([k \in DOMAIN data \cup {key} |->
                IF k = key THEN [q \in {param} |-> JsonValue(var)] ELSE data[k]])

\* set_metadata(user_id, param, var): the file after load, setdefault,
\* assignment and dump. An int user_id is never found among the loaded str
\* keys, so setdefault starts an empty record for it, and the dump writes
\* that record under the same text as the str key, last; the next load
\* keeps the last
SetMetadata(file, user_id, param, var) ==
    LET data == IF file = None THEN EmptyDict ELSE file[1]
        key == JsonKey(user_id)
        record == IF Has(data, user_id) THEN data[key] ELSE EmptyDict
        updated == [q \in DOMAIN record \cup {param} |->
                      IF q = param THEN JsonValue(var) ELSE record[q]]
    IN  Some([k \in DOMAIN data \cup {key} |->
                IF k = key THEN updated ELSE data[k]])

get_metadata(user_id, param) ==
    /\ got' = Some([user_id |-> user_id, param |-> param,
                    value |-> GetMetadata(userVals, user_id, param)])
    /\ UNCHANGED <<parking_places, selected_passes, filters, last_destination,
                   search_history, pull_up, ret, hav, app,
                   current_user_passes, userVals>>

set_metadata(user_id, param, var) ==
    /\ userVals' = SetMetadata(userVals, user_id, param, var)
    /\ UNCHANGED <<parking_places, selected_passes, filters, last_destination,
                   search_history, pull_up, ret, hav, app,
                   current_user_passes, got>>

\* no userVals.json yet
InitMetadata ==
    /\ FreshWindow
    /\ hav = NoHav
    /\ app = LoginPage
    /\ Untouched

NextMetadata ==
    \/ \E user_id \in UserIds, param \in Params : get_metadata(user_id, param)
    \/ \E user_id \in UserIds, param \in Params, var \in Values :
           set_metadata(user_id, param, var)

SpecMetadata == InitMetadata /\ [][NextMetadata]_vars

-----------------------------------------------------------------------------
(* The calls a state holds the result of *)

\* the results in the state: compute_nearest_parking's return value and the
\* panel a search filled, each with the name of the function that made it
Results ==
    (IF ret = None THEN {}
     ELSE {[by |-> "compute_nearest_parking", top3 |-> ret[1].top3,
            recommendation |-> ret[1].recommendation,
            enriched |-> ret[1].enriched]})
    \cup
    (IF pull_up.by = "" THEN {}
     ELSE {[by |-> pull_up.by, top3 |-> pull_up.top3,
            recommendation |-> pull_up.recommendation,
            enriched |-> pull_up.enriched]})

ResultOf(by) == {r \in Results : r.by = by}

\* the lots of parking_places that section 4.2 and 4.3 of the specification
\* let through: eligible, and available or full lots included
SpecEligible(p) ==
    \/ filters[5]
    \/ \A id \in PassIds : ~selected_passes[id]
    \/ \E id \in PassIds :
          /\ selected_passes[id]
          /\ id \in p.passes \/ (id = "ada" /\ p.ada_spots > 0)

SpecListed(p) == SpecEligible(p) /\ (p.available > 0 \/ filters[4])

\* the non-red entries of a list, as indices
NonRed(e) == {i \in 1..Len(e) : e[i].available >= 4}

\* the distance of the closest non-red entry
ClosestNonRed(e) ==
    CHOOSE d \in {e[i].distance_km : i \in NonRed(e)} :
        \A i \in NonRed(e) : d <= e[i].distance_km

\* the non-red entries within 0.05 km of the closest non-red entry
TieGroup(e) ==
    {i \in NonRed(e) : e[i].distance_km - ClosestNonRed(e) <= 50000000}

-----------------------------------------------------------------------------
(* C1 *)

\* C1: the recommendation is none exactly when the enriched list holds no lot
\* with available >= 4; for compute_nearest_parking the enriched list is the
\* lots of parking_places that are eligible and available, for the first
\* variant's search_destination it is every lot; an empty enriched list gives
\* an empty ranked list and no recommendation.
C1_NoneIffNoNonRed ==
    /\ \A r \in Results :
          /\ (r.recommendation = None) <=> (NonRed(r.enriched) = {})
          /\ r.enriched = <<>> => (r.top3 = <<>> /\ r.recommendation = None)
    /\ \A r \in ResultOf("compute_nearest_parking") :
          (r.recommendation = None) <=>
             ~\E i \in 1..Len(parking_places) :
                 SpecListed(parking_places[i]) /\ parking_places[i].available >= 4
    /\ \A r \in ResultOf("search_destination_v1") :
          (r.recommendation = None) <=>
             ~\E i \in 1..Len(parking_places) : parking_places[i].available >= 4

\* a call that listed lots, all of them red, and recommended none
C1_Witness ==
    \E r \in ResultOf("compute_nearest_parking") :
        /\ Len(r.enriched) = 2
        /\ r.recommendation = None
        /\ \E i \in 1..Len(parking_places) : parking_places[i].available = 0

(* C2 *)

\* C2: a recommended lot has available >= 4; a red lot that passes the
\* filters is still in the ranked list.
C2_NeverRed ==
    /\ \A r \in Results :
          r.recommendation # None => r.recommendation[1].available >= 4
    /\ \A r \in ResultOf("compute_nearest_parking") :
          \A i \in 1..Len(parking_places) :
              (SpecListed(parking_places[i]) /\ parking_places[i].available < 4)
              => \E j \in 1..Len(r.enriched) :
                     r.enriched[j].name = parking_places[i].name

\* the closest listed lot is red and a farther lot is recommended
C2_Witness ==
    \E r \in ResultOf("compute_nearest_parking") :
        /\ Len(r.top3) = 2
        /\ r.top3[1].available = 3
        /\ r.top3[1].distance_km < r.top3[2].distance_km
        /\ r.recommendation = Some(r.top3[2])

(* C3 *)

\* C3: a recommended lot is at most 0.05 km farther than the closest non-red
\* lot of the enriched list.
C3_WithinTieWindow ==
    \A r \in Results :
        r.recommendation # None =>
            /\ NonRed(r.enriched) # {}
            /\ r.recommendation[1].distance_km - ClosestNonRed(r.enriched) <= 50000000
            /\ r.recommendation[1].distance_km >= ClosestNonRed(r.enriched)

\* a lot with more spaces lies beyond the window and the closest is recommended
C3_Witness ==
    \E r \in ResultOf("compute_nearest_parking") :
        /\ Len(r.enriched) = 2
        /\ r.enriched[1].available = 8
        /\ r.enriched[2].available = 12
        /\ r.enriched[2].distance_km - r.enriched[1].distance_km > 50000000
        /\ r.recommendation = Some(r.enriched[1])

(* C4 *)

\* C4: when the closest non-red lot has no other non-red lot within 0.05 km,
\* it is the recommendation.
C4_LoneClosest ==
    \A r \in Results :
        (NonRed(r.enriched) # {} /\ Cardinality(TieGroup(r.enriched)) = 1)
        => \E i \in TieGroup(r.enriched) : r.recommendation = Some(r.enriched[i])

\* a red lot is closest, the next lot is orange and lone: it is recommended
C4_Witness ==
    \E r \in ResultOf("search_destination") :
        /\ Len(r.enriched) = 2
        /\ r.enriched[1].available = 3
        /\ r.enriched[2].available = 4
        /\ r.enriched[2].distance_km - r.enriched[1].distance_km > 50000000
        /\ r.recommendation = Some(r.enriched[2])

(* C5 *)

\* the members of the tie group in the preferred class: the greens if there
\* is one, otherwise the oranges
Preferred(e) ==
    LET greens == {i \in TieGroup(e) : e[i].available > 7}
    IN  IF greens # {} THEN greens
        ELSE {i \in TieGroup(e) : e[i].available >= 4 /\ e[i].available <= 7}

\* C5: with two or more lots in the tie group, the recommendation is of the
\* preferred class, has the highest available of that class in the group, and
\* the smallest distance among those with that available.
C5_TieBreak ==
    \A r \in Results :
        (NonRed(r.enriched) # {} /\ Cardinality(TieGroup(r.enriched)) >= 2)
        => \E i \in Preferred(r.enriched) :
              /\ r.recommendation = Some(r.enriched[i])
              /\ \A j \in Preferred(r.enriched) :
                    /\ r.enriched[j].available <= r.enriched[i].available
                    /\ r.enriched[j].available = r.enriched[i].available
                       => r.enriched[i].distance_km <= r.enriched[j].distance_km

\* two greens 44 m apart: the farther one has more spaces and is recommended
C5_Witness ==
    \E r \in ResultOf("compute_nearest_parking") :
        /\ Len(r.enriched) = 2
        /\ r.enriched[1].available = 8
        /\ r.enriched[2].available = 12
        /\ r.enriched[2].distance_km > r.enriched[1].distance_km
        /\ r.enriched[2].distance_km - r.enriched[1].distance_km <= 50000000
        /\ r.recommendation = Some(r.enriched[2])

(* C6 *)

Listed(e, p) == \E j \in 1..Len(e) : e[j].name = p.name

\* e holds exactly the lots of parking_places that satisfy Pass, each once
\* and with its own fields
HoldsExactly(e, Pass(_)) ==
    /\ Len(e) = Cardinality({i \in 1..Len(parking_places) : Pass(parking_places[i])})
    /\ \A i \in 1..Len(parking_places) :
          Pass(parking_places[i]) =>
             \E j \in 1..Len(e) :
                 /\ e[j].name = parking_places[i].name
                 /\ e[j].lat = parking_places[i].lat
                 /\ e[j].available = parking_places[i].available

EveryLot(p) == TRUE

\* C6: the ranked list before truncation is sorted non-decreasing by
\* distance_km and holds exactly the lots that pass the filters, each once.
C6_SortedExact ==
    /\ \A r \in Results :
          \A i, j \in 1..Len(r.enriched) :
              i < j => r.enriched[i].distance_km <= r.enriched[j].distance_km
    /\ \A r \in ResultOf("compute_nearest_parking") :
          HoldsExactly(r.enriched, SpecListed)
    /\ \A r \in ResultOf("search_destination_v1") :
          HoldsExactly(r.enriched, EveryLot)

\* four lots given farthest first come out nearest first
C6_Witness ==
    \E r \in ResultOf("compute_nearest_parking") :
        /\ Len(r.enriched) = 4
        /\ r.enriched[1].name = 4
        /\ r.enriched[4].name = 1
        /\ r.enriched[1].distance_km < r.enriched[4].distance_km

(* C7 *)

\* C7: lots at the same distance keep the order of parking_places (a lot's
\* name is its place in parking_places); of the candidates that tie with the
\* recommendation on available and distance, the recommendation is the first
\* of parking_places.
C7_Stable ==
    \A r \in Results :
        /\ \A i, j \in 1..Len(r.enriched) :
              (i < j /\ r.enriched[i].distance_km = r.enriched[j].distance_km)
              => r.enriched[i].name < r.enriched[j].name
        /\ r.recommendation # None =>
              \A j \in 1..Len(r.enriched) :
                  (/\ r.enriched[j].available = r.recommendation[1].available
                   /\ r.enriched[j].distance_km = r.recommendation[1].distance_km)
                  => r.recommendation[1].name <= r.enriched[j].name

\* two green lots at one place with the same available: the first is recommended
C7_Witness ==
    \E r \in ResultOf("compute_nearest_parking") :
        /\ Len(r.enriched) = 2
        /\ r.enriched[1].distance_km = r.enriched[2].distance_km
        /\ r.enriched[1].available = 12
        /\ r.enriched[2].available = 12
        /\ r.enriched[1].name = 1
        /\ r.recommendation = Some(r.enriched[1])

(* C8 *)

\* C8: with Show Nearest (filters[3]) set the list returned or displayed is
\* the first min(3, n) entries of the sorted list, otherwise the whole list.
C8_TopN ==
    \A r \in ResultOf("compute_nearest_parking") \cup ResultOf("search_destination") :
        IF filters[3]
        THEN /\ Len(r.top3) = (IF Len(r.enriched) < 3 THEN Len(r.enriched) ELSE 3)
             /\ \A i \in 1..Len(r.top3) : r.top3[i] = r.enriched[i]
        ELSE r.top3 = r.enriched

\* four lots pass and three are displayed
C8_Witness ==
    \E r \in ResultOf("search_destination") :
        /\ filters[3]
        /\ Len(r.enriched) = 4
        /\ Len(r.top3) = 3

(* C9 *)

\* C9: with Show Full Lots (filters[4]) unset, every lot in the list of
\* compute_nearest_parking and of search_destination has available > 0.
C9_NoFullLots ==
    \A r \in ResultOf("compute_nearest_parking") \cup ResultOf("search_destination") :
        ~filters[4] => \A i \in 1..Len(r.top3) : r.top3[i].available > 0

(* C10 *)

\* C10: in compute_nearest_parking and in search_destination a lot with free
\* spaces is listed if and only if Show All Permits (filters[5]) is set, or no
\* pass is selected, or the lot's permits and the selected passes intersect;
\* a lot that fails all three is not the recommendation.
C10_Eligibility ==
    \A r \in ResultOf("compute_nearest_parking") \cup ResultOf("search_destination") :
        /\ \A i \in 1..Len(parking_places) :
              parking_places[i].available > 0 =>
                 (Listed(r.enriched, parking_places[i]) <=> SpecEligible(parking_places[i]))
        /\ r.recommendation # None =>
              \E i \in 1..Len(parking_places) :
                  /\ parking_places[i].name = r.recommendation[1].name
                  /\ SpecEligible(parking_places[i])

(* C11 *)

\* no pass is selected in the settings
NoPassSelected == \A id \in PassIds : ~selected_passes[id]

\* the lots with free spaces
FreeLots == {i \in 1..Len(parking_places) : parking_places[i].available > 0}

\* the part of C11 about the functions that read selected_passes
C11_SelectedPassesPart ==
    NoPassSelected =>
       \A r \in ResultOf("compute_nearest_parking") \cup ResultOf("search_destination")
                 \cup ResultOf("select_filter") :
           \A i \in FreeLots : Listed(r.enriched, parking_places[i])

\* C11: an empty user permit set makes every lot eligible: with no pass
\* selected, compute_nearest_parking and search_destination list every lot
\* with free spaces, and show_parking_for_user_passes called with an empty
\* pass list (heading "Pass Matches") lists every lot with free spaces.
C11_EmptyPermitSetShowsAll ==
    /\ C11_SelectedPassesPart
    /\ (pull_up.by = "show_parking_for_user_passes"
           /\ pull_up.destination_name = "Pass Matches")
        => \A i \in FreeLots : Listed(pull_up.top3, parking_places[i])

(* C12 *)

\* the lots with free spaces that take no pass and have no ADA spot
OpenLots ==
    {i \in FreeLots : parking_places[i].passes = {}
                      /\ parking_places[i].ada_spots <= 0}

\* C12 as stated: a lot whose permit set is empty passes the eligibility
\* filter of compute_nearest_parking and search_destination for every user
\* permit set, with or without the override flag.
C12_OpenToAll ==
    \A r \in ResultOf("compute_nearest_parking") \cup ResultOf("search_destination") :
        \A i \in OpenLots : Listed(r.enriched, parking_places[i])

\* the lots that take no pass and have no ADA spot, full or not
PermitlessLots ==
    {i \in 1..Len(parking_places) : parking_places[i].passes = {}
                                     /\ parking_places[i].ada_spots <= 0}

\* C12, amended: a lot whose permit set is empty is open only to a user
\* without a pass. compute_nearest_parking lists it exactly when no pass is
\* selected or Show All Permits is set, and it has a free space or Show Full
\* Lots is set; search_destination lists it exactly when no pass is selected.
C12_OpenOnlyToNoPass ==
    /\ \A r \in ResultOf("compute_nearest_parking") :
          \A i \in PermitlessLots :
             Listed(r.enriched, parking_places[i])
                <=> /\ NoPassSelected \/ filters[5]
                    /\ parking_places[i].available > 0 \/ filters[4]
    /\ \A r \in ResultOf("search_destination") :
          \A i \in PermitlessLots :
             Listed(r.enriched, parking_places[i]) <=> NoPassSelected

\* staff is selected, the override is off, and of two lots with free spaces
\* the staff lot is listed and the lot without permits is not
C12_Witness ==
    \E r \in ResultOf("compute_nearest_parking") :
        /\ selected_passes["staff"] /\ ~filters[5]
        /\ Len(parking_places) = 2
        /\ OpenLots = {1}
        /\ parking_places[2].available > 0
        /\ Len(r.enriched) = 1
        /\ r.enriched[1].name = 2

(* C13 *)

\* c is the class of a lot with a free spaces by the thresholds 4 and 7
ClassOf(c, a) ==
    /\ c \in {"green", "orange", "red"}
    /\ (c = "green") <=> (a > 7)
    /\ (c = "orange") <=> (a >= 4 /\ a <= 7)
    /\ (c = "red") <=> (a < 4)

\* C13: the class of a lot depends on available alone (green above 7,
\* orange from 4 to 7, red below 4), and the class the ranking gives a lot
\* (color_for_avail) is the colour the panel writes on it, for every entry
\* and for the recommendation.
C13_ClassByAvailable ==
    /\ \A j \in 1..Len(pull_up.top3) :
          /\ ClassOf(pull_up.colors[j], pull_up.top3[j].available)
          /\ color_for_avail(pull_up.top3[j].available) = pull_up.colors[j]
    /\ pull_up.recommendation # None =>
          /\ pull_up.rcolor # None
          /\ ClassOf(pull_up.rcolor[1], pull_up.recommendation[1].available)
          /\ color_for_avail(pull_up.recommendation[1].available) = pull_up.rcolor[1]
    /\ \A r \in Results : \A j \in 1..Len(r.enriched) :
          ClassOf(color_for_avail(r.enriched[j].available), r.enriched[j].available)

\* a panel with a lot of 7 spaces shown orange and a lot of 8 shown green,
\* the green one recommended
C13_Witness ==
    /\ Len(pull_up.top3) = 2
    /\ \E j, k \in 1..2 :
          /\ pull_up.top3[j].available = 7 /\ pull_up.colors[j] = "orange"
          /\ pull_up.top3[k].available = 8 /\ pull_up.colors[k] = "green"
          /\ pull_up.recommendation = Some(pull_up.top3[k])
    /\ pull_up.rcolor = Some("green")

(* C14 *)

\* C14 as stated: a recommendation returned with a ranked list is a member
\* of that list, also when the list is cut to the first three.
C14_InReturnedList ==
    \A r \in Results :
        r.recommendation # None =>
           \E j \in 1..Len(r.top3) : r.top3[j] = r.recommendation[1]

\* C14, amended: the recommendation is a member of the full sorted list
\* (before the cut to the first three); it is a member of the returned list
\* whenever the full list has at most three entries or is returned whole.
C14_InFullList ==
    \A r \in Results :
        r.recommendation # None =>
           /\ \E j \in 1..Len(r.enriched) : r.enriched[j] = r.recommendation[1]
           /\ (Len(r.enriched) <= 3 \/ Len(r.top3) = Len(r.enriched))
                 => \E j \in 1..Len(r.top3) : r.top3[j] = r.recommendation[1]

\* three red lots are nearer than a green one: the three are returned and
\* the fourth is recommended
C14_Witness ==
    \E r \in ResultOf("compute_nearest_parking") :
        /\ filters[3]
        /\ Len(r.enriched) = 4
        /\ Len(r.top3) = 3
        /\ \A j \in 1..3 : r.top3[j].available = 3
        /\ r.recommendation = Some(r.enriched[4])

(* C15 *)

\* a second destination, 11 m north of the last lot latitude
Gym == [lat |-> 36127000, lon |-> Lon, display_name |-> "Gym"]

\* what the window can hold besides the lots, the pass selection and the
\* flags: the remembered destination, the history and the panel
HiddenStates ==
    {[_last_destination |-> ld, search_history |-> sh, pull_up |-> pu] :
        ld \in {None, Some(Dest), Some(Gym)},
        sh \in {<<>>, <<"Gym", "Library">>},
        pu \in {NoPanel, Panel("search_destination", "Gym", <<>>, None, <<>>)}}

\* the window with its other attributes replaced by h
WithHidden(h) ==
    [Self EXCEPT !._last_destination = h._last_destination,
                 !.search_history = h.search_history,
                 !.pull_up = h.pull_up]

C16_InputsReadOnly ==
    [][(pull_up' = pull_up /\ search_history' = search_history)
         => UNCHANGED <<parking_places, selected_passes, filters, last_destination>>]_vars

\* a call listed a lot for its ADA spots (passes ['ada'] in the result) and
\* the lot's own pass list is still empty
C16_Witness ==
    /\ ret # None
    /\ Len(parking_places) = 2
    /\ \E j \in 1..Len(ret[1].enriched) :
          /\ ret[1].enriched[j].name = 1
          /\ ret[1].enriched[j].passes = {"ada"}
    /\ parking_places[1].passes = {}
    /\ parking_places[1].ada_spots = 1

(* C17 *)

\* the lots that sections 4.2 and 4.3 list under the flags f
ListedUnder(f) ==
    {i \in 1..Len(parking_places) :
        /\ \/ f[5]
           \/ NoPassSelected
           \/ \E id \in PassIds :
                 /\ selected_passes[id]
                 /\ \/ id \in parking_places[i].passes
                    \/ (id = "ada" /\ parking_places[i].ada_spots > 0)
        /\ (parking_places[i].available > 0 \/ f[4])}

\* the panel shows the ranking made under the flags f: lots listed under f,
\* all of them or, with Show Nearest, at most three
PanelUnder(panel, f) ==
    /\ \A j \in 1..Len(panel.top3) :
          \E i \in ListedUnder(f) : parking_places[i].name = panel.top3[j].name
    /\ Len(panel.top3) =
          (IF f[3] /\ Cardinality(ListedUnder(f)) > 3 THEN 3
           ELSE Cardinality(ListedUnder(f)))

\* C17: every step of select_filter that toggles a flag while a destination
\* is set leaves in the panel the ranking computed under the new flags.
C17_ToggleRecomputes ==
    [][(filters' # filters /\ last_destination # None)
         => PanelUnder(pull_up', filters')]_vars

(* C18 *)

\* C18: _haversine_km gives the same distance from p to q as from q to p,
\* zero from a point to itself, and never a negative distance.
C18_Haversine ==
    /\ (hav.pq # None /\ hav.qp # None) => hav.pq = hav.qp
    /\ hav.pp # None => hav.pp[1] = 0
    /\ \A call \in {"pq", "qp", "pp"} : hav[call] # None => hav[call][1] >= 0

\* the three calls are made for two points that differ in latitude and in
\* longitude and lie a positive distance apart
C18_Witness ==
    /\ hav.p # None /\ hav.q # None
    /\ hav.p[1].lat > hav.q[1].lat
    /\ hav.p[1].lon < hav.q[1].lon
    /\ hav.pq # None /\ hav.qp # None /\ hav.pp # None
    /\ hav.pq[1] > 0

(* C19 *)

\* C19: the lot the panel shows under "Recommended spot (>5 available):"
\* (the section set_results writes when it is given a recommendation) has
\* more than 5 free spaces.
C19_RecommendedOverFive ==
    (pull_up.recommendation # None /\ pull_up.rcolor # None)
       => pull_up.recommendation[1].available > 5

(* C20 *)

\* Auth0 accepted the credentials: the token endpoint answered 200
Accepted(answer) == answer.json /\ answer.status = 200

\* C20: after a login with both fields filled in, if Auth0 accepted the
\* credentials then perform_password_grant returned a dict and the main
\* page is shown with no error; if it rejected them then
\* perform_password_grant returned None, the box "Invalid username or
\* password!" is shown and the login page stays.
C20_LoginOutcome ==
    app.answer # None =>
       IF Accepted(app.answer[1])
       THEN /\ app.tokens # None
            /\ app.tokens[1].type = "dict"
            /\ app.page = "main"
            /\ app.message = None
            /\ app.raised = None
       ELSE /\ app.tokens = None
            /\ app.message = Some("Invalid username or password!")
            /\ app.page = "login"

(* C21 *)

\* the lots the signed-in user may park on now: a free space, and a permit
\* list that shares a pass with the user's passes
UserLot(p) ==
    /\ p.available > 0
    /\ p.passes \cap current_user_passes[1] # {}

\* C21: when set_current_user found passes for the user, the panel of
\* show_parking_for_user_passes lists exactly the lots of parking_places that
\* have available > 0 and a permit list sharing a pass with the user's
\* passes, sorted ascending by distance from the campus centre.
C21_UserPassMatches ==
    (/\ pull_up.by = "show_parking_for_user_passes"
     /\ current_user_passes # None
     /\ current_user_passes[1] # {})
       => /\ HoldsExactly(pull_up.enriched, UserLot)
          /\ \A i, j \in 1..Len(pull_up.enriched) :
                i < j => pull_up.enriched[i].distance_km
                            <= pull_up.enriched[j].distance_km

(* C22 *)

\* C22: the group the tie-break selects from never lacks both a green and an
\* orange member: every member of the group has available >= 4, so the
\* third branch (select from the whole group) is never taken.
C22_ThirdBranchUnreachable ==
    \A r \in Results :
        LET candidates == Candidates(r.enriched)
        IN  candidates # <<>> =>
               LET group == Group(candidates)
               IN  /\ \A j \in 1..Len(group) : group[j].available >= 4
                   /\ \/ \E j \in 1..Len(group) : group[j].available > 7
                      \/ \E j \in 1..Len(group) : group[j].available \in 4..7

\* two orange lots 44 m apart and no green one: the group is both, the
\* second branch selects the one with more spaces
C22_Witness ==
    \E r \in ResultOf("compute_nearest_parking") :
        /\ Len(r.enriched) = 2
        /\ r.enriched[1].available = 4
        /\ r.enriched[2].available = 7
        /\ r.enriched[1].distance_km < r.enriched[2].distance_km
        /\ Len(Group(Candidates(r.enriched))) = 2
        /\ r.recommendation = Some(r.enriched[2])

(* C23 *)

\* entry i of e comes before entry k when the tie group is stably sorted by
\* descending available, then ascending distance_km
SortsBefore(e, i, k) ==
    \/ e[i].available > e[k].available
    \/ /\ e[i].available = e[k].available
       /\ e[i].distance_km < e[k].distance_km
    \/ /\ e[i].available = e[k].available
       /\ e[i].distance_km = e[k].distance_km
       /\ i < k

\* C23: whenever the enriched list has a non-red lot, the recommendation is
\* the first element of the tie group stably sorted by (descending
\* available, ascending distance_km): the three tiers pick what one ordering
\* picks.
C23_SingleOrdering ==
    \A r \in Results :
        NonRed(r.enriched) # {} =>
           \E i \in TieGroup(r.enriched) :
               /\ \A k \in TieGroup(r.enriched) \ {i} :
                      SortsBefore(r.enriched, i, k)
               /\ r.recommendation = Some(r.enriched[i])

\* an orange lot with 7 spaces and, 44 m farther, a green lot with 8: the
\* green tier and the single ordering both pick the green lot
C23_Witness ==
    \E r \in ResultOf("search_destination") :
        /\ Len(r.enriched) = 2
        /\ r.enriched[1].available = 7
        /\ r.enriched[2].available = 8
        /\ TieGroup(r.enriched) = {1, 2}
        /\ r.recommendation = Some(r.enriched[2])

(* C28 *)

\* C28: with Show All Permits off, search_destination and
\* compute_nearest_parking recommend the same lot for the same destination,
\* parking_places and selected_passes, whether Show Full Lots is on or off.
C28_SameRecommendation ==
    ~filters[5] =>
       \A a \in ResultOf("compute_nearest_parking"),
          b \in ResultOf("search_destination") :
           a.recommendation = b.recommendation

\* Show Full Lots off, a full lot next to the destination and a green lot
\* behind it: search_destination lists both, compute_nearest_parking only
\* the green one, and both recommend the green one
C28_Witness ==
    /\ ~filters[5]
    /\ ~filters[4]
    /\ \E a \in ResultOf("compute_nearest_parking"),
          b \in ResultOf("search_destination") :
           /\ Len(b.enriched) = 2
           /\ b.enriched[1].available = 0
           /\ b.enriched[2].available = 8
           /\ Len(a.enriched) = 1
           /\ a.recommendation = Some(b.enriched[2])
           /\ b.recommendation = Some(b.enriched[2])

(* C26 *)

\* the flags with flag i flipped and the five others kept
Flipped(f, i) == [k \in 0..5 |-> IF k = i THEN ~f[k] ELSE f[k]]

\* what C26 says one run of select_filter(i) does
FlipsOnly(i) ==
    /\ filters' = Flipped(filters, i)
    /\ Flipped(filters', i) = filters
    /\ UNCHANGED <<selected_passes, parking_places, last_destination>>

\* C26: every run of select_filter(i), with or without a destination, flips
\* exactly filters[i], leaves the five other flags, selected_passes,
\* parking_places and the last destination unchanged, and is undone by a
\* second flip of i.
C26_ToggleFrame ==
    [][\A i \in 0..5 : select_filter(i) => FlipsOnly(i)]_vars

\* Show Nearest was switched on before any search: the flag is set and
\* nothing else of the window moved
C26_Witness ==
    /\ last_destination = None
    /\ filters = Flipped([k \in 0..5 |-> FALSE], 3)
    /\ pull_up = NoPanel
    /\ ret = None

(* C29 *)

\* the functions that filter the lots by selected_passes
ByPermit == {"compute_nearest_parking", "select_filter", "search_destination"}

\* every lot of parking_places with a free space is in the list e
ListsEveryFreeLot(e) ==
    \A i \in 1..Len(parking_places) :
        parking_places[i].available > 0 => Listed(e, parking_places[i])

\* C29: every lot built at start-up has ada_spots >= 1, so its effective
\* permit set holds "ada" and is not empty; and a step taken while "ada" is
\* among the selected permits, by a function that filters by permit, lists
\* every lot with a free space in what it returns and in the panel it
\* fills, whatever passes the lot lists.
C29_AdaEverywhere ==
    [][/\ \A i \in 1..Len(parking_places) :
             /\ parking_places[i].ada_spots >= 1
             /\ "ada" \in SpotPasses(parking_places[i])
       /\ (selected_passes["ada"] /\ selected_passes' = selected_passes) =>
             /\ (pull_up' # pull_up /\ pull_up'.by \in ByPermit)
                   => ListsEveryFreeLot(pull_up'.enriched)
             /\ (ret' # ret /\ ret' # None)
                   => ListsEveryFreeLot(ret'[1].enriched)]_vars

\* only "ada" is selected, Show All Permits is off, and a search lists the
\* five seed lots, none of which names "ada" among its passes
C29_Witness ==
    /\ selected_passes = Passes({"ada"})
    /\ ~filters[5]
    /\ Len(parking_places) = 5
    /\ \A i \in 1..5 : "ada" \notin parking_places[i].passes
    /\ \E r \in ResultOf("search_destination") : Len(r.enriched) = 5

(* C24 *)

\* C24: the search history never holds more than 10 entries, and when it
\* holds 10 a newly recorded query is put in front and the oldest entry is
\* dropped.
C24_HistoryBound ==
    [][/\ Len(search_history') <= 10
       /\ (Len(search_history) = 10 /\ search_history' # search_history)
            => /\ Len(search_history') = 10
               /\ \A k \in 2..10 : search_history'[k] = search_history[k - 1]]_vars

\* ten entries, alternating between the two places
C24_Witness ==
    /\ Len(search_history) = 10
    /\ search_history[1] = "library"
    /\ search_history[10] = "Gym"

(* C25 *)

\* two queries are equal ignoring case
SameQuery(a, b) == Lower(a) = Lower(b)

\* what C25 says of one search_destination call with the stripped query q
RecordsQuery(q) ==
    IF q = "" THEN search_history' = search_history
    ELSE /\ SameQuery(search_history'[1], q)
         /\ (search_history # <<>> /\ SameQuery(search_history[1], q))
               => search_history' = search_history
         /\ (search_history = <<>> \/ ~SameQuery(search_history[1], q))
               => search_history'[1] = q
         /\ \A k \in 1..(Len(search_history') - 1) :
               ~SameQuery(search_history'[k], search_history'[k + 1])

\* C25: starting from an empty history, each search_destination call with a
\* non-empty query q leaves q (ignoring case) as the first entry, inserts
\* nothing when the first entry already equals q ignoring case, and leaves
\* no two adjacent entries equal ignoring case; a call with an empty query
\* leaves the history unchanged.
C25_RecentFirstNoRepeat ==
    [][\A text \in Texts, geo \in {None, Some(Dest)} :
          (search_destination(Strip(text), geo)
             \/ search_destination_v1(Strip(text), geo))
          => RecordsQuery(Strip(text))]_vars

\* the library was searched in two spellings with another search between
C25_Witness ==
    search_history = <<"library", "Gym", "Library">>

(* C27 *)

\* the registration failed: a field is empty, the passwords differ, or
\* create_user raised Auth0Error
RegistrationFailed(name, pw, conf, answer) ==
    \/ Strip(name) = "" \/ Strip(pw) = "" \/ Strip(conf) = ""
    \/ Strip(pw) # Strip(conf)
    \/ ~(answer.json /\ answer.status \in {200, 201})

\* C27: a register_user call that fails (incomplete fields, differing
\* passwords, or Auth0Error from create_user) adds or overwrites no entry of
\* self.users: a username is stored only after the signup succeeded.
C27_FailedKeepsStore ==
    [][\A name \in {" ", "alice", "bob"}, pw \in {"", "pw"},
          conf \in {"pw", "wrong"}, passes \in {{}, {"staff"}},
          answer \in SignupAnswers :
           (register_user(name, pw, conf, passes, answer)
              /\ RegistrationFailed(name, pw, conf, answer))
           => app'.users = app.users]_vars

(* C30 *)

\* what C30 says of one set_metadata(u, p, v): the pair reads back v, every
\* other pair reads what it read before
PointUpdate(u, p, v) ==
    /\ GetMetadata(userVals', u, p) = v
    /\ \A u2 \in UserIds, p2 \in Params :
          (u2 # u \/ p2 # p)
             => GetMetadata(userVals', u2, p2) = GetMetadata(userVals, u2, p2)

\* without the file every pair reads None
NoFileReadsNone ==
    userVals = None =>
       \A u \in UserIds, p \in Params : GetMetadata(userVals, u, p) = PyNone

\* C30 as stated: after any set_metadata(u, p, v), get_metadata(u, p)
\* returns v and every other pair returns what it returned before; without
\* the store file every pair returns None.
C30_PointUpdate ==
    [][/\ NoFileReadsNone
       /\ \A u \in UserIds, p \in Params, v \in Values :
             set_metadata(u, p, v) => PointUpdate(u, p, v)]_vars

\* C30, for the keys and values the JSON file keeps as they are: after
\* set_metadata(u, p, v) with a string user id u and a value v that
\* json.load returns unchanged, get_metadata(u, p) returns v and every other
\* pair (of any user id) returns what it returned before; without the store
\* file every pair returns None.
C30_PointUpdateOfStrings ==
    [][/\ NoFileReadsNone
       /\ \A u \in UserIds, p \in Params, v \in Values :
             (set_metadata(u, p, v) /\ u.type = "str" /\ v.type # "tuple")
                => PointUpdate(u, p, v)]_vars

\* user "7" has both params set, user "alice" one, and get_metadata just
\* read the last value written for ("7", "theme")
C30_Witness ==
    /\ userVals # None
    /\ DOMAIN userVals[1] = {"7", "alice"}
    /\ DOMAIN userVals[1]["7"] = {"theme", "lot"}
    /\ userVals[1]["7"]["lot"] = Str("dark")
    /\ got = Some([user_id |-> Str("7"), param |-> "theme", value |-> Str("light")])

====
